---- MODULE Spec2Model ----
(***************************************************************************)
(* dso-url-parameter-redactor (src/main.py).                               *)
(*                                                                         *)
(* A text is a sequence of characters; a character is a one-character      *)
(* string ("h", "/", " ", "\n").  A character that has no string of its  *)
(* own (a control character, the backquote) is written "<XX>", XX its hex  *)
(* code, and the Unicode replacement character "<FFFD>".                   *)
(*                                                                         *)
(* The module models                                                       *)
(*   - url_pattern, the locator regex of process_line, by the ordered      *)
(*     list of end positions the backtracking engine tries;                *)
(*   - redact_url_parameters and the urllib.parse calls it makes           *)
(*     (urlparse, parse_qs, urlencode, urlunparse);                        *)
(*   - process_line (re.sub with replace_url);                             *)
(*   - main's opening of the streams, its line loop and its exit status.   *)
(***************************************************************************)
EXTENDS Integers, Sequences, FiniteSets, TLC

(***************************************************************************)
(* Characters                                                              *)
(***************************************************************************)
Lower == {"a","b","c","d","e","f","g","h","i","j","k","l","m",
          "n","o","p","q","r","s","t","u","v","w","x","y","z"}
Upper == {"A","B","C","D","E","F","G","H","I","J","K","L","M",
          "N","O","P","Q","R","S","T","U","V","W","X","Y","Z"}
Digit == {"0","1","2","3","4","5","6","7","8","9"}
Alnum == Lower \cup Upper \cup Digit

\* The ASCII table: Ascii[n + 1] is the character with code n.
Ascii ==
  << "<00>","<01>","<02>","<03>","<04>","<05>","<06>","<07>",
     "<08>","\t","\n","<0B>","\f","\r","<0E>","<0F>",
     "<10>","<11>","<12>","<13>","<14>","<15>","<16>","<17>",
     "<18>","<19>","<1A>","<1B>","<1C>","<1D>","<1E>","<1F>",
     " ","!","\"","#","$","%","&","'","(",")","*","+",",","-",".","/",
     "0","1","2","3","4","5","6","7","8","9",":",";","<","=",">","?",
     "@","A","B","C","D","E","F","G","H","I","J","K","L","M","N","O",
     "P","Q","R","S","T","U","V","W","X","Y","Z","[","\\","]","^","_",
     "<60>","a","b","c","d","e","f","g","h","i","j","k","l","m","n","o",
     "p","q","r","s","t","u","v","w","x","y","z","{","|","}","~","<7F>" >>

\* ord(c) of an ASCII character.
Ord(c) == (CHOOSE n \in 1..128 : Ascii[n] = c) - 1

\* str.lower on an ASCII character.
ToLower(c) == IF c \in Upper THEN Ascii[Ord(c) + 33] ELSE c

\* A character that is not ASCII is written "<XXXX>", XXXX its code point in
\* hexadecimal (four digits at least); U+FFFD is the replacement character
\* of errors='replace'.
Replacement == "<FFFD>"

HexDigits == <<"0","1","2","3","4","5","6","7","8","9","A","B","C","D","E","F">>

Min(S) == CHOOSE x \in S : \A y \in S : x <= y
Max(S) == CHOOSE x \in S : \A y \in S : x >= y

Range(L) == {L[k] : k \in 1..Len(L)}

\* str.find: the first index >= from of c in s, 0 when there is none.
Find(s, c, from) ==
  IF \E i \in from..Len(s) : s[i] = c
  THEN CHOOSE i \in from..Len(s) : s[i] = c /\ \A j \in from..(i - 1) : s[j] # c
  ELSE 0

\* str.rfind: the last index of c in s, 0 when there is none.
RFind(s, c) ==
  IF \E i \in 1..Len(s) : s[i] = c
  THEN CHOOSE i \in 1..Len(s) : s[i] = c /\ \A j \in (i + 1)..Len(s) : s[j] # c
  ELSE 0

Contains(s, c) == \E i \in 1..Len(s) : s[i] = c

\* s[i:] and s[:i] of Python, with i counted in characters consumed.
Drop(s, i) == SubSeq(s, i + 1, Len(s))
Take(s, i) == SubSeq(s, 1, i)

\* s[i:i+len(w)] == w
StartsAt(s, i, w) ==
  /\ i + Len(w) <= Len(s)
  /\ \A j \in 1..Len(w) : s[i + j] = w[j]

\* w in s
HasSub(s, w) == \E i \in 0..Len(s) : StartsAt(s, i, w)

\* The concatenation of the texts ss[lo..hi] (by halves: the evaluation stays
\* shallow on long sequences).
RECURSIVE Concat(_, _, _)
Concat(ss, lo, hi) ==
  IF lo > hi THEN <<>>
  ELSE IF lo = hi THEN ss[lo]
  ELSE LET mid == (lo + hi) \div 2
       IN Concat(ss, lo, mid) \o Concat(ss, mid + 1, hi)

Flatten(ss) == Concat(ss, 1, Len(ss))

\* sep.join(ss)
Join(ss, sep) ==
  Flatten([k \in 1..Len(ss) |-> IF k = 1 THEN ss[k] ELSE sep \o ss[k]])

\* s.split(c): the pieces of s between the occurrences of c.
Split(s, c) ==
  LET cuts == {i \in 1..Len(s) : s[i] = c}
      n    == Cardinality(cuts)
      \* the k-th cut, with 0 before the first and Len(s)+1 after the last
      cut(k) == IF k = 0 THEN 0
                ELSE IF k = n + 1 THEN Len(s) + 1
                ELSE CHOOSE i \in cuts : Cardinality({j \in cuts : j < i}) = k - 1
  IN [k \in 1..(n + 1) |-> SubSeq(s, cut(k - 1) + 1, cut(k) - 1)]

(***************************************************************************)
(* url_pattern (src/main.py:122-155), as the backtracking engine runs it.  *)
(* A position is the number of characters consumed.  Each component maps a *)
(* start position to the list of end positions the engine tries, in the    *)
(* order it tries them (greedy first); the engine's match is the first end *)
(* of the whole pattern at which the trailing \b holds.  A repeated end    *)
(* position is kept once, at its first place: the rest of the pattern      *)
(* depends only on the position, so a retry from it fails as the first.    *)
(***************************************************************************)
\* a, then what b adds to it.
Merge(a, b) ==
  LET seen == Range(a) IN a \o SelectSeq(b, LAMBDA x : x \notin seen)

\* The lists ss[lo..hi] one after the other, each position at its first place.
RECURSIVE MergeAll(_, _, _)
MergeAll(ss, lo, hi) ==
  IF lo > hi THEN <<>>
  ELSE IF lo = hi THEN ss[lo]
  ELSE LET mid == (lo + hi) \div 2
       IN Merge(MergeAll(ss, lo, mid), MergeAll(ss, mid + 1, hi))

\* Sequencing: every end of the first part, in order, continued by the second
\* part; next[j] is the list of ends of the second part from position j.
Then(L, next) ==
  IF L = <<>> THEN <<>>
  ELSE MergeAll([k \in 1..Len(L) |-> next[L[k]]], 1, Len(L))

\* The end of the longest run of characters of class C from position i.
RunEnd(s, i, C) ==
  CHOOSE j \in i..Len(s) :
    /\ \A k \in (i + 1)..j : s[k] \in C
    /\ j = Len(s) \/ s[j + 1] \notin C

\* hi, hi-1, ..., lo
Down(hi, lo) == [k \in 1..(hi - lo + 1) |-> hi - k + 1]

\* [C]* and [C]+ from i: the longest run first, then shorter ones.
Star(s, i, C) == Down(RunEnd(s, i, C), i)
Plus(s, i, C) == Down(RunEnd(s, i, C), i + 1)

\* A literal text w at i.
Lit(s, i, w) == IF StartsAt(s, i, w) THEN <<i + Len(w)>> ELSE <<>>

\* (?: ... )? greedy: the group first, then nothing.
Opt(i, L) == Merge(L, <<i>>)

\* \w of a str pattern, on ASCII text.
WordChars == Alnum \cup {"_"}

\* \b at position i: exactly one of the characters around i is a word character.
WordBoundary(s, i) ==
  (i > 0 /\ s[i] \in WordChars) # (i < Len(s) /\ s[i + 1] \in WordChars)

DomainChars == Alnum \cup {".", "-"}
HexChars    == Digit \cup {"a","b","c","d","e","f","A","B","C","D","E","F"}
HexColon    == HexChars \cup {":"}
PathChars   == Alnum \cup {"_", "@", "%", "+", "-"}
QueryChars  == Alnum \cup {"_", "@", "%", "&", "+", "=", ";", "-"}

\* A variant of SchemeEnds: the scheme matched in any letter case, as the
\* pattern would with re.IGNORECASE among its flags.
SchemeEndsAnyCase(s, i) ==
  LET AnyCase(j, w) ==
        IF j + Len(w) <= Len(s) /\ \A n \in 1..Len(w) : ToLower(s[j + n]) = w[n]
        THEN <<j + Len(w)>> ELSE <<>>
  IN Then(Then(AnyCase(i, <<"h","t","t","p">>),
               [j \in 0..Len(s) |-> Opt(j, AnyCase(j, <<"s">>))]),
          [j \in 0..Len(s) |-> Lit(s, j, <<":","/","/">>)])

\* https?://                                             (src/main.py:126)
SchemeEnds(s, i) ==
  Then(Then(Lit(s, i, <<"h","t","t","p">>),
            [j \in 0..Len(s) |-> Opt(j, Lit(s, j, <<"s">>))]),
       [j \in 0..Len(s) |-> Lit(s, j, <<":","/","/">>)])

\* (?: [a-zA-Z0-9.-]+ | \[[a-fA-F0-9:]+\] )             (src/main.py:127-131)
HostEnds(s, i) ==
  Merge(Plus(s, i, DomainChars),
        Then(Then(Lit(s, i, <<"[">>),
                  [j \in 0..Len(s) |-> Plus(s, j, HexColon)]),
             [j \in 0..Len(s) |-> Lit(s, j, <<"]">>)]))

\* (?: : [0-9]+ )?                                       (src/main.py:132-135)
PortEnds(s, i) ==
  Opt(i, Then(Lit(s, i, <<":">>), [j \in 0..Len(s) |-> Plus(s, j, Digit)]))

\* The "." of the path component is not escaped: it is the regex dot, which
\* matches any one character but a line break.          (src/main.py:138)
DotEnds(s, i) == IF i < Len(s) /\ s[i + 1] # "\n" THEN <<i + 1>> ELSE <<>>

\* / [a-zA-Z0-9_@%+-]* . [a-zA-Z0-9_@%+-]*               (src/main.py:137-139)
SegmentEnds(s, i) ==
  Then(Then(Then(Lit(s, i, <<"/">>),
                 [j \in 0..Len(s) |-> Star(s, j, PathChars)]),
            [j \in 0..Len(s) |-> DotEnds(s, j)]),
       [j \in 0..Len(s) |-> Star(s, j, PathChars)])

\* (?: segment )* greedy: one more segment first, then none.
\*                                                       (src/main.py:136-140)
RECURSIVE PathEnds(_, _)
PathEnds(s, i) ==
  Merge(Then(SegmentEnds(s, i), [e \in 0..Len(s) |-> PathEnds(s, e)]), <<i>>)

\* (?: \? [Q]* [Q]* )?                                   (src/main.py:141-145)
QueryEnds(s, i) ==
  Opt(i, Then(Then(Lit(s, i, <<"?">>),
                   [j \in 0..Len(s) |-> Star(s, j, QueryChars)]),
              [j \in 0..Len(s) |-> Star(s, j, QueryChars)]))

\* (?: \# [Q]* [Q]* )?                                   (src/main.py:146-150)
FragmentEnds(s, i) ==
  Opt(i, Then(Then(Lit(s, i, <<"#">>),
                   [j \in 0..Len(s) |-> Star(s, j, QueryChars)]),
              [j \in 0..Len(s) |-> Star(s, j, QueryChars)]))

\* The ends of group 1 from i, in the engine's order.
GroupEnds(s, i) ==
  Then(Then(Then(Then(Then(SchemeEnds(s, i),
                           [j \in 0..Len(s) |-> HostEnds(s, j)]),
                      [j \in 0..Len(s) |-> PortEnds(s, j)]),
                 [j \in 0..Len(s) |-> PathEnds(s, j)]),
            [j \in 0..Len(s) |-> QueryEnds(s, j)]),
       [j \in 0..Len(s) |-> FragmentEnds(s, j)])

\* url_pattern.match at position i: the end of the match, -1 when there is none
\* (the first end of group 1, in the engine's order, at which \b holds).
url_pattern(s, i) ==
  IF ~WordBoundary(s, i) THEN -1
  ELSE Head(SelectSeq(GroupEnds(s, i), LAMBDA e : WordBoundary(s, e))
            \o <<-1>>)

\* url_pattern.match at every position of s.
MatchEnds(s) == [q \in 0..Len(s) |-> url_pattern(s, q)]

\* The spans [start, end) of the matches from position p on, left to right,
\* non-overlapping: the scan moves to the first position >= p where the
\* pattern matches, then on from the end of that match.
RECURSIVE SpansFrom(_, _)
RECURSIVE SpanAt(_, _)
SpansFrom(ends, p) ==
  LET starts == {q \in DOMAIN ends : q >= p /\ ends[q] # -1}
  IN IF starts = {} THEN <<>> ELSE SpanAt(ends, Min(starts))

SpanAt(ends, q) ==
  <<[start |-> q, end |-> ends[q]]>> \o SpansFrom(ends, ends[q])

\* url_pattern.finditer from position p (what re.sub replaces).
finditer(s, p) == SpansFrom(MatchEnds(s), p)

\* match.group(1) of a span.
Group1(s, m) == SubSeq(s, m.start + 1, m.end)

(***************************************************************************)
(* urllib.parse, as redact_url_parameters calls it (src/main.py:85-102).   *)
(* The texts the program reads are ASCII; a character that is not ASCII    *)
(* comes from the percent escapes of a query, which unquote decodes as     *)
(* UTF-8 with errors='replace' and quote_plus encodes as UTF-8.            *)
(***************************************************************************)
Letters == Lower \cup Upper

HexLower == <<"0","1","2","3","4","5","6","7","8","9","a","b","c","d","e","f">>

\* int(c, 16)
HexVal(c) == (CHOOSE v \in 1..16 : HexDigits[v] = c \/ HexLower[v] = c) - 1

\* int(s), s a run of decimal digits of length <= 3 (an IPv4 octet).
DecVal(s) ==
  IF Len(s) = 1 THEN HexVal(s[1])
  ELSE IF Len(s) = 2 THEN 10 * HexVal(s[1]) + HexVal(s[2])
  ELSE 100 * HexVal(s[1]) + 10 * HexVal(s[2]) + HexVal(s[3])

\* "%XX", the escape of the byte n.
PercentHex(n) == <<"%", HexDigits[(n \div 16) + 1], HexDigits[(n % 16) + 1]>>

\* The four hexadecimal digits of n < 65536.
Hex4(n) ==
  HexDigits[(n \div 4096) + 1] \o HexDigits[((n \div 256) % 16) + 1]
    \o HexDigits[((n \div 16) % 16) + 1] \o HexDigits[(n % 16) + 1]

\* chr(cp)
Chr(cp) ==
  IF cp < 128 THEN Ascii[cp + 1]
  ELSE IF cp < 65536 THEN "<" \o Hex4(cp) \o ">"
  ELSE IF cp < 1048576
       THEN "<" \o HexDigits[(cp \div 65536) + 1] \o Hex4(cp % 65536) \o ">"
  ELSE "<10" \o Hex4(cp % 65536) \o ">"

\* The value of the hexadecimal digits c[from..to] of the text c.
HexNumber(c, from, to) ==
  LET digit(k) == HexVal(SubSeq(c, k, k)) * 16 ^ (to - k)
      sum[k \in from..(to + 1)] == IF k > to THEN 0 ELSE digit(k) + sum[k + 1]
  IN sum[from]

\* ord(c)
CodePoint(c) ==
  IF c \in Range(Ascii) THEN Ord(c) ELSE HexNumber(c, 2, Len(c) - 1)

\* chr(cp).encode('utf-8'): the bytes of a code point.
Utf8Bytes(cp) ==
  IF cp < 128 THEN <<cp>>
  ELSE IF cp < 2048 THEN <<192 + (cp \div 64), 128 + (cp % 64)>>
  ELSE IF cp < 65536
       THEN <<224 + (cp \div 4096), 128 + ((cp \div 64) % 64), 128 + (cp % 64)>>
  ELSE <<240 + (cp \div 262144), 128 + ((cp \div 4096) % 64),
         128 + ((cp \div 64) % 64), 128 + (cp % 64)>>

\* The escapes "%XX" of a sequence of bytes.
PercentBytes(bytes) == Flatten([k \in 1..Len(bytes) |-> PercentHex(bytes[k])])

\* _ALWAYS_SAFE of urllib.parse: letters, digits and "_.-~".
AlwaysSafe == Alnum \cup {"_", ".", "-", "~"}

\* quote_plus(s, safe=''): what urlencode applies to every name and value.
quote_plus(s) ==
  Flatten([i \in 1..Len(s) |->
             IF s[i] \in AlwaysSafe THEN <<s[i]>>
             ELSE IF s[i] = " " THEN <<"+">>
             ELSE PercentBytes(Utf8Bytes(CodePoint(s[i])))])

\* s[i..i+2] is a percent escape "%XX" (i is an index of s).
IsEscape(s, i) ==
  /\ i >= 1
  /\ i + 2 <= Len(s)
  /\ s[i] = "%"
  /\ s[i + 1] \in HexChars
  /\ s[i + 2] \in HexChars

\* The byte of the escape that starts at s[i], -1 when none starts there.
EscapeByte(s, i) ==
  IF IsEscape(s, i) THEN 16 * HexVal(s[i + 1]) + HexVal(s[i + 2]) ELSE -1

\* A continuation byte of UTF-8: 10xxxxxx.
IsContinuation(b) == b >= 128 /\ b <= 191

\* b2 may follow the lead byte b1: a continuation byte that makes no overlong
\* form (E0, F0), no surrogate (ED) and no code point above U+10FFFF (F4).
SecondOk(b1, b2) ==
  /\ IsContinuation(b2)
  /\ b1 = 224 => b2 >= 160
  /\ b1 = 237 => b2 < 160
  /\ b1 = 240 => b2 >= 144
  /\ b1 = 244 => b2 < 144

\* One step of bytes.decode('utf-8', 'replace') on the bytes b1 b2 b3 b4 (-1
\* for a place where no escape stands): the code point decoded and the
\* number of bytes used.  A byte that starts no sequence, and the longest
\* valid start of a sequence that is cut short, become one U+FFFD.
Utf8Step(b1, b2, b3, b4) ==
  IF b1 < 128 THEN [cp |-> b1, used |-> 1]
  ELSE IF b1 < 194 \/ b1 > 244 THEN [cp |-> 65533, used |-> 1]
  ELSE IF ~SecondOk(b1, b2) THEN [cp |-> 65533, used |-> 1]
  ELSE IF b1 < 224 THEN [cp |-> (b1 - 192) * 64 + (b2 - 128), used |-> 2]
  ELSE IF ~IsContinuation(b3) THEN [cp |-> 65533, used |-> 2]
  ELSE IF b1 < 240
       THEN [cp |-> (b1 - 224) * 4096 + (b2 - 128) * 64 + (b3 - 128),
             used |-> 3]
  ELSE IF ~IsContinuation(b4) THEN [cp |-> 65533, used |-> 3]
  ELSE [cp |-> (b1 - 240) * 262144 + (b2 - 128) * 4096 + (b3 - 128) * 64
                 + (b4 - 128),
        used |-> 4]

\* The step of the decoder at the escape that starts at s[i].
StepAt(s, i) ==
  Utf8Step(EscapeByte(s, i), EscapeByte(s, i + 3), EscapeByte(s, i + 6),
           EscapeByte(s, i + 9))

\* unquote(s) from s[i] on: a run of escapes "%XX" becomes the text its bytes
\* encode; a "%" that two hex digits do not follow stays.
RECURSIVE UnquoteFrom(_, _)
UnquoteStep(s, i, step) == <<Chr(step.cp)>> \o UnquoteFrom(s, i + 3 * step.used)

UnquoteFrom(s, i) ==
  IF i > Len(s) THEN <<>>
  ELSE IF IsEscape(s, i) THEN UnquoteStep(s, i, StepAt(s, i))
  ELSE <<s[i]>> \o UnquoteFrom(s, i + 1)

\* unquote(s, encoding='utf-8', errors='replace')
unquote(s) == UnquoteFrom(s, 1)

\* s.replace('+', ' ')
PlusToSpace(s) == [i \in 1..Len(s) |-> IF s[i] = "+" THEN " " ELSE s[i]]

\* parse_qsl keeps a field: keep_blank_values is False, so a field with no
\* "=" or with nothing after its first "=" is skipped.
IsKept(f) ==
  LET eq == Find(f, "=", 1) IN f # <<>> /\ eq > 0 /\ eq < Len(f)

\* The (name, value) pair of a field whose first "=" is at eq.
PairOf(f, eq) ==
  [name  |-> unquote(PlusToSpace(Take(f, eq - 1))),
   value |-> unquote(PlusToSpace(Drop(f, eq)))]

\* parse_qsl(qs): the (name, value) pairs of the fields of qs, split at "&".
parse_qsl(qs) ==
  LET kept == SelectSeq(IF qs = <<>> THEN <<>> ELSE Split(qs, "&"),
                        LAMBDA f : IsKept(f))
  IN [k \in 1..Len(kept) |-> PairOf(kept[k], Find(kept[k], "=", 1))]

\* The names of a list of pairs, each at the place of its first pair.
NamesOf(pairs) ==
  IF pairs = <<>> THEN <<>>
  ELSE MergeAll([k \in 1..Len(pairs) |-> <<pairs[k].name>>], 1, Len(pairs))

\* The values of the pairs of one name, in order.
ValuesOf(pairs, name) ==
  LET mine == SelectSeq(pairs, LAMBDA p : p.name = name)
  IN [j \in 1..Len(mine) |-> mine[j].value]

\* The dict parse_qs builds from the pairs: name -> list of values; a dict
\* keeps its keys in the order of their first insertion.
DictOf(pairs, names) ==
  [k \in 1..Len(names) |->
     [name |-> names[k], values |-> ValuesOf(pairs, names[k])]]

GroupPairs(pairs) == DictOf(pairs, NamesOf(pairs))

\* parse_qs(qs)
parse_qs(qs) == GroupPairs(parse_qsl(qs))

\* urlencode(query, doseq=True): name=value for every value of every key,
\* joined by "&", names and values quoted by quote_plus.
urlencode(query) ==
  Join(Flatten([k \in 1..Len(query) |->
                  [j \in 1..Len(query[k].values) |->
                     quote_plus(query[k].name) \o <<"=">>
                       \o quote_plus(query[k].values[j])]]),
       <<"&">>)

uses_params ==
  { <<>>, <<"f","t","p">>, <<"h","d","l">>, 
    <<"p","r","o","s","p","e","r","o">>, <<"h","t","t","p">>, 
    <<"i","m","a","p">>, <<"h","t","t","p","s">>, <<"s","h","t","t","p">>, 
    <<"r","t","s","p">>, <<"r","t","s","p","s">>, <<"r","t","s","p","u">>, 
    <<"s","i","p">>, <<"s","i","p","s">>, <<"m","m","s">>, 
    <<"s","f","t","p">>, <<"t","e","l">> }

uses_netloc ==
  { <<>>, <<"f","t","p">>, <<"h","t","t","p">>, 
    <<"g","o","p","h","e","r">>, <<"n","n","t","p">>, 
    <<"t","e","l","n","e","t">>, <<"i","m","a","p">>, <<"w","a","i","s">>, 
    <<"f","i","l","e">>, <<"m","m","s">>, <<"h","t","t","p","s">>, 
    <<"s","h","t","t","p">>, <<"s","n","e","w","s">>, 
    <<"p","r","o","s","p","e","r","o">>, <<"r","t","s","p">>, 
    <<"r","t","s","p","s">>, <<"r","t","s","p","u">>, 
    <<"r","s","y","n","c">>, <<"s","v","n">>, 
    <<"s","v","n","+","s","s","h">>, <<"s","f","t","p">>, <<"n","f","s">>, 
    <<"g","i","t">>, <<"g","i","t","+","s","s","h">>, <<"w","s">>, 
    <<"w","s","s">> }

\* One octet of an IPv4 address: at most three decimal digits, no leading
\* zero, at most 255.
IsOctet(o) ==
  /\ o # <<>>
  /\ \A j \in 1..Len(o) : o[j] \in Digit
  /\ Len(o) <= 3
  /\ (Len(o) > 1 => o[1] # "0")
  /\ DecVal(o) <= 255

\* IPv4Address(s) parses: four octets.
IsIPv4(s) ==
  LET octets == Split(s, ".")
  IN Len(octets) = 4 /\ \A k \in 1..4 : IsOctet(octets[k])

\* IPv6Address._parse_hextet accepts t: at most four hex digits.
IsHextet(t) == Len(t) <= 4 /\ \A j \in 1..Len(t) : t[j] \in HexChars

\* The hextets of an IPv6 address (an IPv4 tail replaced by two of them):
\* at most one "::", the right number of hextets around it.
IsIPv6Parts(parts) ==
  LET n     == Len(parts)
      skips == {i \in 2..(n - 1) : parts[i] = <<>>}
      skip  == CHOOSE i \in skips : TRUE
      hi    == IF parts[1] = <<>> THEN skip - 2 ELSE skip - 1
      lo    == IF parts[n] = <<>> THEN n - skip - 1 ELSE n - skip
  IN /\ n <= 9
     /\ Cardinality(skips) <= 1
     /\ IF skips # {}
        THEN /\ parts[1] = <<>> => hi = 0
             /\ parts[n] = <<>> => lo = 0
             /\ 8 - (hi + lo) >= 1
        ELSE /\ n = 8
             /\ parts[1] # <<>>
             /\ parts[n] # <<>>
     /\ \A i \in 1..n : IsHextet(parts[i])

\* The pieces of an IPv6 address between its colons: at least three, and a
\* last piece with a "." is an IPv4 address, which stands for two hextets.
IsIPv6Raw(raw) ==
  LET last == raw[Len(raw)]
  IN /\ Len(raw) >= 3
     /\ Contains(last, ".") => IsIPv4(last)
     /\ IsIPv6Parts(IF Contains(last, ".")
                    THEN SubSeq(raw, 1, Len(raw) - 1) \o << <<"0">>, <<"0">> >>
                    ELSE raw)

\* IPv6Address(h) parses (ipaddress._split_scope_id, _ip_int_from_str).
IsIPv6(h) ==
  LET pct == Find(h, "%", 1)
  IN /\ ~Contains(h, "/")
     /\ pct # 0 => (Drop(h, pct) # <<>> /\ ~Contains(Drop(h, pct), "%"))
     /\ (IF pct = 0 THEN h ELSE Take(h, pct - 1)) # <<>>
     /\ IsIPv6Raw(Split(IF pct = 0 THEN h ELSE Take(h, pct - 1), ":"))

\* _check_bracketed_host(h) returns without raising ValueError.
BracketedHostOk(h) ==
  IF h # <<>> /\ h[1] = "v"
  THEN \* re.match(r"\Av[a-fA-F0-9]+\..+\Z", h)
       LET e == RunEnd(h, 1, HexChars)
       IN e > 1 /\ e < Len(h) /\ h[e + 1] = "." /\ e + 1 < Len(h)
  ELSE IsIPv6(h)

\* netloc.partition('[')[2].partition(']')[0]
BracketedHost(netloc) ==
  LET after == Drop(netloc, Find(netloc, "[", 1))
      close == Find(after, "]", 1)
  IN IF close = 0 THEN after ELSE Take(after, close - 1)

\* The characters urlsplit strips from the left of a URL (C0 controls and
\* space) and those it removes everywhere.
C0ControlOrSpace == {Ascii[n] : n \in 1..33}
UnsafeToRemove   == {"\t", "\r", "\n"}
SchemeChars      == Letters \cup Digit \cup {"+", "-", "."}

\* urlsplit, last step: the query after the first "?" of what is left.
SplitQuery(ok, scheme, netloc, u, fragment) ==
  LET qm == Find(u, "?", 1)
  IN [ok |-> ok, scheme |-> scheme, netloc |-> netloc,
      path     |-> IF qm = 0 THEN u ELSE Take(u, qm - 1),
      query    |-> IF qm = 0 THEN <<>> ELSE Drop(u, qm),
      fragment |-> fragment]

\* urlsplit, fourth step: the fragment after the first "#".
SplitFragment(ok, scheme, netloc, u) ==
  LET hash == Find(u, "#", 1)
  IN SplitQuery(ok, scheme, netloc,
                IF hash = 0 THEN u ELSE Take(u, hash - 1),
                IF hash = 0 THEN <<>> ELSE Drop(u, hash))

\* urlsplit, third step: ValueError for a bracket without its pair in the
\* netloc, or a bracketed host that is no IPv6 or IPvFuture address.
CheckNetloc(scheme, netloc, u) ==
  SplitFragment(/\ Contains(netloc, "[") = Contains(netloc, "]")
                /\ Contains(netloc, "[")
                     => BracketedHostOk(BracketedHost(netloc)),
                scheme, netloc, u)

\* urlsplit, second step: after "//" the netloc runs up to the first of "/?#"
\* (_splitnetloc(url, 2)).
SplitNetloc(scheme, u) ==
  LET hasNet == StartsAt(u, 0, <<"/", "/">>)
      delims == {i \in 3..Len(u) : u[i] \in {"/", "?", "#"}}
      delim  == IF delims = {} THEN Len(u) + 1 ELSE Min(delims)
  IN CheckNetloc(scheme,
                 IF hasNet THEN SubSeq(u, 3, delim - 1) ELSE <<>>,
                 IF hasNet THEN Drop(u, delim - 1) ELSE u)

\* urlsplit, first step: the scheme is what stands before the first ":" when
\* that starts with a letter and holds scheme characters only; lower-cased.
SplitScheme(u) ==
  LET colon  == Find(u, ":", 1)
      hasSch == /\ colon > 1
                /\ u[1] \in Letters
                /\ \A j \in 1..(colon - 1) : u[j] \in SchemeChars
  IN SplitNetloc(IF hasSch THEN [j \in 1..(colon - 1) |-> ToLower(u[j])]
                 ELSE <<>>,
                 IF hasSch THEN Drop(u, colon) ELSE u)

\* urlsplit(url): [ok, scheme, netloc, path, query, fragment]; ok is FALSE when
\* urlsplit raises ValueError.  The URL is first stripped of leading C0
\* controls and spaces, and of every tab and line break.
urlsplit(url) ==
  SplitScheme(SelectSeq(Drop(url, RunEnd(url, 0, C0ControlOrSpace)),
                        LAMBDA c : c \notin UnsafeToRemove))

\* _splitparams(url): the index of the ";" that starts the params of the last
\* path segment, 0 when there is none.
SplitParamsAt(path) ==
  LET slash == RFind(path, "/")
  IN IF slash > 0 THEN Find(path, ";", slash) ELSE Find(path, ";", 1)

\* urlparse on the result r of urlsplit: the params of the last path segment.
WithParams(r) ==
  LET semi == IF r.scheme \in uses_params THEN SplitParamsAt(r.path) ELSE 0
  IN [ok |-> r.ok, scheme |-> r.scheme, netloc |-> r.netloc,
      path     |-> IF semi = 0 THEN r.path ELSE Take(r.path, semi - 1),
      params   |-> IF semi = 0 THEN <<>> ELSE Drop(r.path, semi),
      query    |-> r.query, fragment |-> r.fragment]

\* urlparse(url)
urlparse(url) == WithParams(urlsplit(url))

\* urlunsplit((scheme, netloc, url, query, fragment))
urlunsplit(scheme, netloc, u, query, fragment) ==
  (IF scheme # <<>> THEN scheme \o <<":">> ELSE <<>>)
  \o (IF netloc # <<>>
         \/ (scheme # <<>> /\ scheme \in uses_netloc
             /\ ~StartsAt(u, 0, <<"/", "/">>))
      THEN <<"/", "/">> \o netloc
             \o (IF u # <<>> /\ u[1] # "/" THEN <<"/">> ELSE <<>>)
      ELSE <<>>)
  \o u
  \o (IF query # <<>> THEN <<"?">> \o query ELSE <<>>)
  \o (IF fragment # <<>> THEN <<"#">> \o fragment ELSE <<>>)

\* urlunparse((scheme, netloc, path, params, query, fragment))
urlunparse(scheme, netloc, path, params, query, fragment) ==
  urlunsplit(scheme, netloc,
             IF params # <<>> THEN path \o <<";">> \o params ELSE path,
             query, fragment)

(***************************************************************************)
(* redact_url_parameters (src/main.py:72-106)                              *)
(***************************************************************************)
\* The loop of lines 88-90: the values of every key of query_params that
\* params_to_redact names become [redaction_string].
RedactParams(query_params, params_to_redact, redaction_string) ==
  [k \in 1..Len(query_params) |->
     IF query_params[k].name \in Range(params_to_redact)
     THEN [name |-> query_params[k].name, values |-> <<redaction_string>>]
     ELSE query_params[k]]

\* The try block raises (urlparse's ValueError).
Raises(url) == ~urlparse(url).ok

\* A variant of Fallback: the except branch returns nothing (a handler that
\* logs and falls off the end of the function).
FallbackNone(url) == <<>>

\* What the except branch returns: the original URL (line 106).
Fallback(url) == url

\* Lines 86-102 on the parsed URL: the query parsed, its values replaced,
\* re-encoded, and the URL put together again.
Rebuild(parsed_url, params_to_redact, redaction_string) ==
  urlunparse(parsed_url.scheme, parsed_url.netloc, parsed_url.path,
             parsed_url.params,
             urlencode(RedactParams(parse_qs(parsed_url.query),
                                    params_to_redact, redaction_string)),
             parsed_url.fragment)

\* redact_url_parameters(url, params_to_redact, redaction_string)
redact_url_parameters(url, params_to_redact, redaction_string) ==
  IF Raises(url) THEN Fallback(url)
  ELSE Rebuild(urlparse(url), params_to_redact, redaction_string)

(***************************************************************************)
(* process_line (src/main.py:109-163)                                      *)
(***************************************************************************)
\* replace_url(match): the redacted group 1 of the match.
replace_url(s, m, params_to_redact, redaction_string) ==
  redact_url_parameters(Group1(s, m), params_to_redact, redaction_string)

\* url_pattern.sub(replace_url, line) on the matches ms: every match replaced,
\* the text between the matches kept.
sub(s, ms, params_to_redact, redaction_string) ==
  Flatten([k \in 1..(Len(ms) + 1) |->
    SubSeq(s, (IF k = 1 THEN 0 ELSE ms[k - 1].end) + 1,
              IF k = Len(ms) + 1 THEN Len(s) ELSE ms[k].start)
    \o (IF k = Len(ms) + 1 THEN <<>>
        ELSE replace_url(s, ms[k], params_to_redact, redaction_string))])

\* process_line(line, params_to_redact, redaction_string)
process_line(s, params_to_redact, redaction_string) ==
  sub(s, finditer(s, 0), params_to_redact, redaction_string)

(***************************************************************************)
(* The inputs the specifications draw from                                 *)
(***************************************************************************)
\* At most MaxSegs segments make a free-form line, at most MaxPairs fields a
\* query string, at most MaxLines lines an input.
MaxSegs  == 3
MaxPairs == 2
MaxLines == 2

\* All sequences of at most n elements of S.
SeqsUpTo(S, n) == UNION {[1..m -> S] : m \in 0..n}

\* The value the inputs use as the secret of parameter k.
Secret == <<"S","3">>

\* -p/--parameters and -r/--redaction_string (the token may be empty, and may
\* hold characters that a query percent-encodes).
ParameterSets == { << <<"k">> >>, << <<"x">>, <<"k">> >> }
Tokens        == { <<"R">>, <<>>, <<"a"," ","b">> }

\* The fields of a query string: k is the parameter to redact.
Fields ==
  { <<"k","=","S","3">>,
    <<"k","=","t">>,
    <<"k","=">>,
    <<"x","=","1">>,
    <<"x","=">>,
    <<"f","l","a","g">>,
    <<"K","=","v">>,
    <<"x","=","%","C","3","%","A","9">> }

\* Scheme, host and port of the URLs; the host of the last one is in brackets
\* and is no IPv6 address.
Bases ==
  { <<"h","t","t","p",":","/","/","e",".","c","o">>,
    <<"h","t","t","p","s",":","/","/","e",".","c","o",":","8","0">>,
    <<"h","t","t","p",":","/","/","[",":",":","1","]",":","8","0">>,
    <<"h","t","t","p",":","/","/","[","a","b","c","]">> }

Paths     == { <<>>,
               <<"/","p">>,
               <<"/","p",".","q","/","r">> }
Fragments == { <<>>,
               <<"#","f">> }

\* The query string of a sequence of fields ("" for none).
QueryString(fields) ==
  IF fields = <<>> THEN <<>> ELSE <<"?">> \o Join(fields, <<"&">>)

\* The URLs redact_url_parameters is applied to.
Urls ==
  { b \o p \o QueryString(q) \o f :
      b \in Bases, p \in Paths \ {<<"/","p",".","q","/","r">>},
      q \in SeqsUpTo(Fields, MaxPairs), f \in Fragments }

\* The segments of a free-form line.
Segments ==
  { <<"h","t","t","p",":","/","/","e",".","c","o">>,
    <<"h","t","t","p",":","/","/","[","a","b","c","]">>,
    <<"e",".","c","o">>,
    <<"/","p">>,
    <<"?","k","=","S","3">>,
    <<"h","t","t","p",":">>,
    <<"H","T","T","P",":","/","/","e",".","c","o">>,
    <<"s","e","e">>,
    <<" ">> }

\* A line and how it is put together: kind "free" (texts: segments), "one"
\* (texts: before, base, path, fragment, after; fields: the query) or "two"
\* (texts: before, first URL, separator, second URL, after).
FreeShapes ==
  { [kind |-> "free", texts |-> t, fields |-> <<>>] :
      t \in SeqsUpTo(Segments, MaxSegs) }

Befores == { <<>>,
             <<"s","e","e"," ">> }
Afters  == { <<>>,
             <<" ","n","o","w">>,
             <<","," ">> }

OneQueries ==
  { <<>>, << <<"k","=","S","3">> >>, << <<"k","=","S","3">>, <<"x","=","1">> >>,
    << <<"x","=","1">>, <<"k","=","S","3">> >>,
    << <<"x","=","%","C","3","%","A","9">>, <<"k","=","S","3">> >> }

OneShapes ==
  { [kind |-> "one", texts |-> <<pre, b, p, f, post>>, fields |-> q] :
      pre \in Befores, b \in Bases, p \in Paths, f \in Fragments,
      post \in Afters, q \in OneQueries }

TwoUrls ==
  { <<"h","t","t","p",":","/","/","e",".","c","o","?","k","=","S","3">>,
    <<"h","t","t","p",":","/","/","e",".","c","o","/","p">>,
    <<"h","t","t","p",":","/","/","e",".","c","o","/","p","?","k","=","S","3">>,
    <<"h","t","t","p",":","/","/","[","a","b","c","]","?","k","=","S","3">> }
Separators == { <<" ">>,
                <<","," ">>,
                <<" ","a","n","d"," ">> }

TwoShapes ==
  { [kind |-> "two", texts |-> <<pre, u1, sep, u2, post>>, fields |-> <<>>] :
      pre \in Befores, u1 \in TwoUrls, sep \in Separators, u2 \in TwoUrls,
      post \in {<<>>} }

LineShapes == FreeShapes \cup OneShapes \cup TwoShapes

\* The text of a line of a given shape.
Compose(sh) ==
  IF sh.kind = "one"
  THEN sh.texts[1] \o sh.texts[2] \o sh.texts[3] \o QueryString(sh.fields)
         \o sh.texts[4] \o sh.texts[5]
  ELSE Flatten(sh.texts)

\* The lines of an input file (each ends with a line break).
FileLines ==
  { <<"s","e","e"," ","h","t","t","p",":","/","/","e",".","c","o","?","k","=","S","3"," ","n","o","w","\n">>,
    <<"N","o"," ","l","i","n","k","s"," ","h","e","r","e",".","\n">>,
    <<"h","t","t","p",":","/","/","[","a","b","c","]","?","k","=","S","3"," ","h","t","t","p",":","/","/","e",".","c","o","?","x","=","1","&","k","=","S","3","\n">>,
    <<"a","t"," ","h","t","t","p",":","/","/","[","a","b","c","]","/","p",","," ","t","h","e","n"," ","h","t","t","p",":","/","/","e",".","c","o","?","k","=","S","3","#","f","\n">> }

\* The command lines of main.  options is what they hold beside the options
\* below: nothing that matters ("ok"), an option the parser does not know
\* ("unknown"), or -h before anything the parser rejects ("help").
CommandLines ==
  { [options |-> "ok", log_level |-> "INFO", parameters |-> p,
     redaction_string |-> t] :
      p \in { <<"k">>, <<"x",","," ","k">> }, t \in Tokens }
  \cup
  { [options |-> "ok", log_level |-> "CRITICAL", parameters |-> <<" ","k"," ">>,
     redaction_string |-> <<"R">>],
    [options |-> "ok", log_level |-> "BOGUS", parameters |-> <<"k">>,
     redaction_string |-> <<"R">>],
    [options |-> "unknown", log_level |-> "INFO", parameters |-> <<"k">>,
     redaction_string |-> <<"R">>],
    [options |-> "help", log_level |-> "INFO", parameters |-> <<"k">>,
     redaction_string |-> <<"R">>] }

(***************************************************************************)
(* State                                                                   *)
(***************************************************************************)
VARIABLES
  pc,                \* where the run stands
  params_to_redact,  \* the Parameter Set (a sequence of names)
  redaction_string,  \* the Redaction Token
  url,               \* the argument of redact_url_parameters
  redacted_url,      \* what redact_url_parameters(url, ...) returned
  redacted_again,    \* what redact_url_parameters(redacted_url, ...) returned
  shape,             \* how the line is put together
  line,              \* the argument of process_line
  candidates,        \* match.group(1) of every match of url_pattern in line
  replacements,      \* what replace_url returned for each of them
  redacted_line,     \* what process_line returned
  error_log,         \* the calls of logging.error and logging.critical
  argv,              \* the command line of main
  log_level,         \* the level of the root logger
  input,             \* args.input: "stdin", or a file: "file", "missing", "unreadable"
  output,            \* args.output: "stdout", or a path: "file", "unwritable"
  input_lines,       \* the lines of the input
  pos,               \* the number of lines the loop of main has taken
  failed_at,         \* the number of the line at which the loop raised (one
                     \* past the last: it raised with no line to read), 0 for none
  written,           \* the lines written to the output
  output_opened,     \* open(args.output, "w") was called
  exit_status,       \* the exit status of the process, -1 while it runs
  flush_failed       \* the flush of the standard streams at exit failed

vars ==
  << pc, params_to_redact, redaction_string, url, redacted_url, redacted_again,
     shape, line, candidates, replacements, redacted_line, error_log,
     argv, log_level, input, output, input_lines, pos, failed_at, written,
     output_opened, exit_status, flush_failed >>

argVars    == << argv, log_level >>
redactVars == << url, redacted_url, redacted_again >>
lineVars   == << shape, line, candidates, replacements, redacted_line >>
mainVars   == << input, output, input_lines, pos, failed_at, written,
                 output_opened, exit_status, flush_failed >>

NoShape == [kind |-> "none", texts |-> <<>>, fields |-> <<>>]

\* No command line: the functions are called without main.
NoArgv == [options |-> "none", log_level |-> "INFO", parameters |-> <<>>,
           redaction_string |-> <<>>]

RedactIdle ==
  url = <<>> /\ redacted_url = <<>> /\ redacted_again = <<>>

LineIdle ==
  /\ shape = NoShape
  /\ line = <<>>
  /\ candidates = <<>>
  /\ replacements = <<>>
  /\ redacted_line = <<>>

MainIdle ==
  /\ argv = NoArgv
  /\ log_level = "INFO"
  /\ input = "stdin"
  /\ output = "stdout"
  /\ input_lines = <<>>
  /\ pos = 0
  /\ failed_at = 0
  /\ written = <<>>
  /\ output_opened = FALSE
  /\ exit_status = -1
  /\ flush_failed = FALSE

\* logging.error(f"Error redacting URL {url}: {e}")                (line 105)
RedactError(u) == [level |-> "ERROR", event |-> "redact", about |-> u]

\* A record main logs: the failure to open the input (lines 191, 194) or the
\* output (line 202), an error in the loop (line 213), an unexpected error
\* (line 221).
MainError(level, event) == [level |-> level, event |-> event, about |-> <<>>]

(***************************************************************************)
(* redact_url_parameters, called once and then on its own result           *)
(***************************************************************************)
InitRedact ==
  /\ pc = "call"
  /\ params_to_redact \in ParameterSets
  /\ redaction_string \in Tokens
  /\ url \in Urls
  /\ redacted_url = <<>>
  /\ redacted_again = <<>>
  /\ error_log = <<>>
  /\ LineIdle
  /\ MainIdle

Redact ==
  /\ pc = "call"
  /\ redacted_url' =
       redact_url_parameters(url, params_to_redact, redaction_string)
  /\ error_log' = IF Raises(url) THEN Append(error_log, RedactError(url))
                  ELSE error_log
  /\ pc' = "redacted"
  /\ UNCHANGED << argVars, params_to_redact, redaction_string, url, redacted_again,
                  lineVars, mainVars >>

RedactAgain ==
  /\ pc = "redacted"
  /\ redacted_again' =
       redact_url_parameters(redacted_url, params_to_redact, redaction_string)
  /\ error_log' = IF Raises(redacted_url)
                  THEN Append(error_log, RedactError(redacted_url))
                  ELSE error_log
  /\ pc' = "again"
  /\ UNCHANGED << argVars, params_to_redact, redaction_string, url, redacted_url,
                  lineVars, mainVars >>

NextRedact == Redact \/ RedactAgain

SpecRedact == InitRedact /\ [][NextRedact]_vars

(***************************************************************************)
(* process_line on one line                                                *)
(***************************************************************************)
Init ==
  /\ pc = "line"
  /\ params_to_redact \in ParameterSets
  /\ redaction_string \in Tokens
  /\ shape \in LineShapes
  /\ line = Compose(shape)
  /\ candidates = <<>>
  /\ replacements = <<>>
  /\ redacted_line = <<>>
  /\ error_log = <<>>
  /\ RedactIdle
  /\ MainIdle

\* match.group(1) of every match.
Candidates(s, ms) == [k \in 1..Len(ms) |-> Group1(s, ms[k])]

\* The records replace_url logs on the candidates: one for every candidate on
\* which redact_url_parameters raises, in the order of the matches.
ErrorsOf(cs) ==
  LET bad == SelectSeq(cs, LAMBDA c : Raises(c))
  IN [k \in 1..Len(bad) |-> RedactError(bad[k])]

LineErrors(s) == ErrorsOf(Candidates(s, finditer(s, 0)))

ProcessLine ==
  /\ pc = "line"
  /\ candidates' = Candidates(line, finditer(line, 0))
  /\ replacements' =
       [k \in 1..Len(candidates') |->
          redact_url_parameters(candidates'[k], params_to_redact,
                                redaction_string)]
  /\ redacted_line' = process_line(line, params_to_redact, redaction_string)
  /\ error_log' = error_log \o LineErrors(line)
  /\ pc' = "processed"
  /\ UNCHANGED << argVars, params_to_redact, redaction_string, shape, line,
                  redactVars, mainVars >>

Next == ProcessLine

Spec == Init /\ [][Next]_vars

(***************************************************************************)
(* main (src/main.py:166-222)                                              *)
(***************************************************************************)
\* The choices of -l/--log_level (line 65).
choices == {"DEBUG", "INFO", "WARNING", "ERROR", "CRITICAL"}

\* setup_argparse (lines 26-69): the status with which parser.parse_args()
\* ends the process, -1 when it returns the arguments.  -h prints the help
\* and exits with 0; an option the parser does not know and a log level
\* outside the choices make parser.error exit with 2.
setup_argparse(cl) ==
  IF cl.options = "help" THEN 0
  ELSE IF cl.options = "unknown" \/ cl.log_level \notin choices THEN 2
  ELSE -1

\* The numeric value of a level name (logging.DEBUG .. logging.CRITICAL).
LevelNo(level) ==
  IF level = "DEBUG" THEN 10
  ELSE IF level = "INFO" THEN 20
  ELSE IF level = "WARNING" THEN 30
  ELSE IF level = "ERROR" THEN 40
  ELSE 50

\* Line 171: of the calls in error_log, those the root logger hands to its
\* handler: the ones whose level is not below the level of the logger.
Handled ==
  SelectSeq(error_log, LAMBDA r : LevelNo(r.level) >= LevelNo(log_level))

\* The characters str.strip() removes (ASCII).
Whitespace == {" ", "\t", "\n", "<0B>", "\f", "\r", "<1C>", "<1D>", "<1E>", "<1F>"}

\* s.strip()
Strip(s) ==
  LET keep == {i \in 1..Len(s) : s[i] \notin Whitespace}
  IN IF keep = {} THEN <<>> ELSE SubSeq(s, Min(keep), Max(keep))

\* Line 175: [p.strip() for p in args.parameters.split(",")]
ParamsOf(parameters) ==
  LET ps == Split(parameters, ",") IN [k \in 1..Len(ps) |-> Strip(ps[k])]

\* main is called: the module is imported (faker and chardet are installed,
\* lines 7-19; basicConfig has set the level INFO, line 23).
InitMain ==
  /\ pc = "parse_args"
  /\ argv \in CommandLines
  /\ log_level = "INFO"
  /\ params_to_redact = <<>>
  /\ redaction_string = <<>>
  /\ input \in {"stdin", "file", "missing", "unreadable"}
  /\ output \in {"stdout", "file", "unwritable"}
  /\ input_lines \in SeqsUpTo(FileLines, MaxLines)
  /\ input \in {"missing", "unreadable"} => input_lines = <<>>
  /\ pos = 0
  /\ failed_at = 0
  /\ written = <<>>
  /\ output_opened = FALSE
  /\ exit_status = -1
  /\ flush_failed = FALSE
  /\ error_log = <<>>
  /\ RedactIdle
  /\ LineIdle

\* Lines 170-176: the arguments are parsed, the level of the root logger is
\* set, the Parameter Set is split at "," and stripped, the token is taken.
ParseArgs ==
  /\ pc = "parse_args"
  /\ setup_argparse(argv) = -1
  /\ log_level' = argv.log_level
  /\ params_to_redact' = ParamsOf(argv.parameters)
  /\ redaction_string' = argv.redaction_string
  /\ pc' = "open_input"
  /\ UNCHANGED << argv, error_log, redactVars, lineVars, mainVars >>

\* Line 170: parser.parse_args() ends the process (help, or a usage error
\* written to standard error): nothing is opened, nothing is logged.
ParseArgsExits ==
  /\ pc = "parse_args"
  /\ setup_argparse(argv) # -1
  /\ exit_status' = setup_argparse(argv)
  /\ pc' = "exit"
  /\ UNCHANGED << argVars, flush_failed, params_to_redact, redaction_string,
                  error_log, redactVars, lineVars, input, output, input_lines,
                  pos, failed_at, written, output_opened >>

\* Lines 179-189: standard input, or the file opened for reading.
OpenInput ==
  /\ pc = "open_input"
  /\ input \in {"stdin", "file"}
  /\ pc' = "open_output"
  /\ UNCHANGED << argVars, params_to_redact, redaction_string, error_log, redactVars,
                  lineVars, mainVars >>

\* A variant of OpenInputFails: the output is opened before the input, so a
\* run that cannot read its input has already truncated the output file.
OpenInputFailsAfterOutput ==
  /\ pc = "open_input"
  /\ input \in {"missing", "unreadable"}
  /\ output_opened' = (output # "stdout")
  /\ error_log' = Append(error_log, MainError("ERROR", "input"))
  /\ exit_status' = 1
  /\ pc' = "exit"
  /\ UNCHANGED << argVars, flush_failed, params_to_redact, redaction_string,
                  redactVars, lineVars, input, output, input_lines, pos,
                  failed_at, written >>

\* Lines 190-195: the input file is missing or cannot be read: sys.exit(1).
\* SystemExit is no Exception: the handler of line 220 lets it through.
OpenInputFails ==
  /\ pc = "open_input"
  /\ input \in {"missing", "unreadable"}
  /\ error_log' = Append(error_log, MainError("ERROR", "input"))
  /\ exit_status' = 1
  /\ pc' = "exit"
  /\ UNCHANGED << argVars, flush_failed, params_to_redact, redaction_string,
                  redactVars, lineVars, input, output, input_lines, pos,
                  failed_at, written, output_opened >>

\* Lines 197-206: standard output, or the file opened for writing.
OpenOutput ==
  /\ pc = "open_output"
  /\ output \in {"stdout", "file"}
  /\ output_opened' = (output = "file")
  /\ pc' = "loop"
  /\ UNCHANGED << argVars, flush_failed, params_to_redact, redaction_string,
                  error_log, redactVars, lineVars, input, output, input_lines,
                  pos, failed_at, written, exit_status >>

\* Lines 199-203: open(args.output, "w") raises: sys.exit(1).
OpenOutputFails ==
  /\ pc = "open_output"
  /\ output = "unwritable"
  /\ output_opened' = TRUE
  /\ error_log' = Append(error_log, MainError("ERROR", "output"))
  /\ exit_status' = 1
  /\ pc' = "exit"
  /\ UNCHANGED << argVars, flush_failed, params_to_redact, redaction_string,
                  redactVars, lineVars, input, output, input_lines, pos,
                  failed_at, written >>

\* Lines 209-211: one turn of the loop: the next line is read, passed through
\* process_line and written.
LoopLine ==
  /\ pc = "loop"
  /\ pos < Len(input_lines)
  /\ pos' = pos + 1
  /\ line' = input_lines[pos + 1]
  /\ candidates' = Candidates(line', finditer(line', 0))
  /\ replacements' =
       [k \in 1..Len(candidates') |->
          redact_url_parameters(candidates'[k], params_to_redact,
                                redaction_string)]
  /\ redacted_line' = process_line(line', params_to_redact, redaction_string)
  /\ written' = Append(written, redacted_line')
  /\ error_log' = error_log \o LineErrors(line')
  /\ UNCHANGED << pc, argVars, flush_failed, params_to_redact,
                  redaction_string, redactVars, shape, input, output,
                  input_lines, failed_at, output_opened, exit_status >>

\* Lines 209, 212-213: taking the next line from the input raises: a byte
\* the encoding cannot decode, a read error, or no stream to iterate at all
\* (sys.stdin is None when standard input is closed), which happens with no
\* line left to read as well.  The try statement encloses the whole for
\* loop: the handler logs the error and the loop is over.
LoopReadRaises ==
  /\ pc = "loop"
  /\ pos <= Len(input_lines)
  /\ failed_at' = pos + 1
  /\ error_log' = Append(error_log, MainError("ERROR", "data"))
  /\ pc' = "finally"
  /\ UNCHANGED << argVars, flush_failed, params_to_redact, redaction_string,
                  redactVars, lineVars, input, output, input_lines, pos,
                  written, output_opened, exit_status >>

\* Lines 209-213: the next line is read and passed through process_line, and
\* writing it raises (a character the output encoding cannot encode, a full
\* device, no standard output): the handler logs the error and the loop is
\* over.
LoopWriteRaises ==
  /\ pc = "loop"
  /\ pos < Len(input_lines)
  /\ pos' = pos + 1
  /\ line' = input_lines[pos + 1]
  /\ candidates' = Candidates(line', finditer(line', 0))
  /\ replacements' =
       [k \in 1..Len(candidates') |->
          redact_url_parameters(candidates'[k], params_to_redact,
                                redaction_string)]
  /\ redacted_line' = process_line(line', params_to_redact, redaction_string)
  /\ failed_at' = pos + 1
  /\ error_log' = Append(error_log \o LineErrors(line'),
                         MainError("ERROR", "data"))
  /\ pc' = "finally"
  /\ UNCHANGED << argVars, flush_failed, params_to_redact, redaction_string,
                  redactVars, shape, input, output, input_lines, written,
                  output_opened, exit_status >>

\* The for loop ends with the input.
LoopEnds ==
  /\ pc = "loop"
  /\ pos = Len(input_lines)
  /\ pc' = "finally"
  /\ UNCHANGED << argVars, params_to_redact, redaction_string, error_log, redactVars,
                  lineVars, mainVars >>

\* Lines 214-218: the streams main opened are closed, and main returns: the
\* status is 0 unless the interpreter fails at exit.
Finally ==
  /\ pc = "finally"
  /\ exit_status' = 0
  /\ pc' = "exit"
  /\ UNCHANGED << argVars, flush_failed, params_to_redact, redaction_string,
                  error_log, redactVars, lineVars, input, output, input_lines,
                  pos, failed_at, written, output_opened >>

\* Lines 214-222: close() of a file main opened raises (the flush of the
\* buffered output fails); the exception leaves the finally block, the
\* handler of line 220 logs it as critical and calls sys.exit(1).
FinallyRaises ==
  /\ pc = "finally"
  /\ input = "file" \/ output = "file"
  /\ error_log' = Append(error_log, MainError("CRITICAL", "close"))
  /\ exit_status' = 1
  /\ pc' = "exit"
  /\ UNCHANGED << argVars, flush_failed, params_to_redact, redaction_string,
                  redactVars, lineVars, input, output, input_lines, pos,
                  failed_at, written, output_opened >>

\* Lines 180, 183: logging.info is called once the arguments are parsed; the
\* root logger hands the record to its handler at the levels DEBUG and INFO.
InfoHandled == setup_argparse(argv) = -1 /\ LevelNo(log_level) <= 20

\* Text went to standard output: the lines written when no -o is given
\* (line 211), the help of the parser.
StdoutText ==
  \/ output = "stdout" /\ written # <<>>
  \/ setup_argparse(argv) = 0

\* Text went to standard error: the usage error of the parser, a record the
\* root logger handed to its handler.
StderrText ==
  \/ setup_argparse(argv) = 2
  \/ InfoHandled
  \/ Handled # <<>>

\* The process ends with the status sys.exit was given (0 when main
\* returned, line 225).
Exit ==
  /\ pc = "exit"
  /\ pc' = "exited"
  /\ UNCHANGED << argVars, params_to_redact, redaction_string, error_log,
                  redactVars, lineVars, mainVars >>

\* The process ends, and the interpreter cannot flush what standard output
\* or standard error still hold (a full device): the status is 120 whatever
\* sys.exit was given.
ExitFlushFails ==
  /\ pc = "exit"
  /\ StdoutText \/ StderrText
  /\ flush_failed' = TRUE
  /\ exit_status' = 120
  /\ pc' = "exited"
  /\ UNCHANGED << argVars, params_to_redact, redaction_string, error_log,
                  redactVars, lineVars, input, output, input_lines, pos,
                  failed_at, written, output_opened >>

NextMain ==
  \/ ParseArgs
  \/ ParseArgsExits
  \/ OpenInput
  \/ OpenInputFails
  \/ OpenOutput
  \/ OpenOutputFails
  \/ LoopLine
  \/ LoopReadRaises
  \/ LoopWriteRaises
  \/ LoopEnds
  \/ Finally
  \/ FinallyRaises
  \/ Exit
  \/ ExitFlushFails

SpecMain == InitMain /\ [][NextMain]_vars

(***************************************************************************)
(* The properties                                                          *)
(*                                                                         *)
(* A URL text of the inputs is base, path, "?" and fields joined by "&",   *)
(* "#" and fragment; the operators below read it as the documentation      *)
(* does, without the parser of the program.                                *)
(***************************************************************************)
\* Where the query or the fragment starts: the first "?" or "#" (one past the
\* end when there is neither).
QueryStart(u) ==
  LET marks == {i \in 1..Len(u) : u[i] \in {"?", "#"}}
  IN IF marks = {} THEN Len(u) + 1 ELSE Min(marks)

\* Scheme, authority and path: what stands before the query and the fragment.
BeforeQuery(u) == Take(u, QueryStart(u) - 1)

\* The fragment with its "#" ("" when there is none).
FragmentText(u) ==
  IF Find(u, "#", 1) = 0 THEN <<>> ELSE Drop(u, Find(u, "#", 1) - 1)

\* The query without its "?" ("" when there is none).
QueryText(u) ==
  LET rest == IF Find(u, "#", 1) = 0 THEN u ELSE Take(u, Find(u, "#", 1) - 1)
  IN IF Find(rest, "?", 1) = 0 THEN <<>> ELSE Drop(rest, Find(rest, "?", 1))

\* A name or a value as the query writes it, decoded.
Decoded(t) == unquote(PlusToSpace(t))

\* The query parameters of a URL text, in order: every field between the "&"
\* is one, its name before the first "=" and its value after it (a field
\* with nothing after the "=", or with no "=", has the empty value).
RawPairs(u) ==
  LET fs == IF QueryText(u) = <<>> THEN <<>> ELSE Split(QueryText(u), "&")
  IN [k \in 1..Len(fs) |->
        LET eq == Find(fs[k], "=", 1)
        IN [name  |-> Decoded(IF eq = 0 THEN fs[k] ELSE Take(fs[k], eq - 1)),
            value |-> Decoded(IF eq = 0 THEN <<>> ELSE Drop(fs[k], eq))]]

NamesIn(pairs) == {pairs[k].name : k \in 1..Len(pairs)}

\* The values a name has among the pairs, in order.
ValuesNamed(pairs, n) ==
  LET mine == SelectSeq(pairs, LAMBDA p : p.name = n)
  IN [k \in 1..Len(mine) |-> mine[k].value]

\* A token that a query holds as it is written (no character of it is
\* percent-encoded).
IsPlain(t) == \A c \in Range(t) : c \in AlwaysSafe

\* A field as the documentation redacts it: the value of a parameter of the
\* Parameter Set becomes the token, every other field stays.
ExpectedField(f, P, T) ==
  LET eq == Find(f, "=", 1)
  IN IF eq > 0 /\ Take(f, eq - 1) \in Range(P)
     THEN Take(f, eq) \o T
     ELSE f

\* A line of kind "one" as the documentation redacts it.
ExpectedLine(sh, P, T) ==
  sh.texts[1] \o sh.texts[2] \o sh.texts[3]
    \o QueryString([k \in 1..Len(sh.fields) |-> ExpectedField(sh.fields[k], P, T)])
    \o sh.texts[4] \o sh.texts[5]

\* The characters the documentation gives a URL candidate.
CandidateChars ==
  Alnum \cup {":", "/", ".", "-", "[", "]", "_", "@", "%", "+", "?", "#",
              "&", "=", ";"}

\* The line holds a URL with a path, then a query in which a parameter of the
\* Parameter Set has the secret as its value.
C1_Case ==
  /\ pc = "processed"
  /\ shape.kind = "one"
  /\ shape.texts[3] # <<>>
  /\ \E k \in 1..Len(shape.fields) : shape.fields[k] = <<"k", "=">> \o Secret
  /\ ~Raises(shape.texts[2])
  /\ redaction_string # <<>>
  /\ IsPlain(redaction_string)

\* C1: a line that holds an http(s) URL with a non-empty path and a query in
\* which a parameter of the Parameter Set has a non-empty value comes out of
\* process_line with that value replaced by the token and every other
\* character unchanged; the secret is not in the output.
C1_SecretReplacedInLine ==
  C1_Case =>
    /\ redacted_line = ExpectedLine(shape, params_to_redact, redaction_string)
    /\ ~HasSub(redacted_line, Secret)

\* C2: for a URL that parses, every name of the Parameter Set that is a query
\* parameter of the URL is in the query of the result exactly once, with the
\* token as its value; a name of the Parameter Set that is no query parameter
\* of the URL is none of the result either, and nothing is logged.
C2_TokenOncePerName ==
  (pc = "redacted" /\ ~Raises(url)) =>
    /\ \A k \in Range(params_to_redact) :
         IF k \in NamesIn(RawPairs(url))
         THEN ValuesNamed(RawPairs(redacted_url), k) = <<redaction_string>>
         ELSE k \notin NamesIn(RawPairs(redacted_url))
    /\ error_log = <<>>

\* C3: for a URL that parses, every query parameter whose name is not in the
\* Parameter Set (one with an empty value or without "=" included) is in the
\* result with the same values, and scheme, authority, path and fragment are
\* those of the URL.
C3_OtherParametersKept ==
  (pc = "redacted" /\ ~Raises(url)) =>
    /\ \A n \in NamesIn(RawPairs(url)) \ Range(params_to_redact) :
         ValuesNamed(RawPairs(redacted_url), n) = ValuesNamed(RawPairs(url), n)
    /\ BeforeQuery(redacted_url) = BeforeQuery(url)
    /\ FragmentText(redacted_url) = FragmentText(url)

\* C4: redacting the redacted URL again, with the same Parameter Set and the
\* same token (the empty token included), returns it unchanged.
C4_Idempotent ==
  pc = "again" => redacted_again = redacted_url

\* C5: every candidate the pattern matches holds only the characters the
\* documentation gives a URL: no white space, no quote, no comma.
C5_CandidateCharacters ==
  pc = "processed" =>
    \A k \in 1..Len(candidates) :
      \A j \in 1..Len(candidates[k]) : candidates[k][j] \in CandidateChars

\* C6: a line of two URLs with text between them comes out as the text
\* before, the first URL redacted as it is alone, the text between, the
\* second URL redacted as it is alone, and the text after.
C6_EachUrlAsAlone ==
  (pc = "processed" /\ shape.kind = "two") =>
    redacted_line =
      shape.texts[1]
        \o process_line(shape.texts[2], params_to_redact, redaction_string)
        \o shape.texts[3]
        \o process_line(shape.texts[4], params_to_redact, redaction_string)
        \o shape.texts[5]

\* C7: a candidate on which redact_url_parameters raises is returned as it is
\* and an error is logged for it; it stands in the output line as it was; the
\* other candidates of the line are replaced by their redaction, the line is
\* written, and unless reading or writing itself fails every line of the
\* input is written.
C7_IdentityFallback ==
  /\ \A k \in 1..Len(candidates) :
       /\ Raises(candidates[k]) =>
            /\ replacements[k] = candidates[k]
            /\ RedactError(candidates[k]) \in Range(error_log)
            /\ HasSub(redacted_line, candidates[k])
       /\ HasSub(redacted_line, replacements[k])
  /\ (pos > 0 /\ pc = "loop") => written[pos] = redacted_line
  /\ (pc = "finally" /\ failed_at = 0) => Len(written) = Len(input_lines)

\* A run in which the last of two lines held a candidate that does not parse,
\* followed by a URL that was redacted, and both lines were written.
C7_Witness ==
  /\ pc = "finally"
  /\ failed_at = 0
  /\ Len(written) = 2
  /\ Len(candidates) = 2
  /\ Raises(candidates[1])
  /\ replacements[1] = candidates[1]
  /\ replacements[2] # candidates[2]
  /\ HasSub(candidates[2], Secret)
  /\ ~HasSub(replacements[2], Secret)

\* The line holds neither "http://" nor "https://".
NoSchemeIn(s) ==
  /\ ~HasSub(s, <<"h","t","t","p",":","/","/">>)
  /\ ~HasSub(s, <<"h","t","t","p","s",":","/","/">>)

\* C8: a line that holds neither "http://" nor "https://" has no candidate
\* and comes out of process_line as it went in.
C8_NoSchemeNoChange ==
  (pc = "processed" /\ NoSchemeIn(line)) =>
    candidates = <<>> /\ redacted_line = line

\* Such a line that looks like a URL all the same: an upper-case scheme, a
\* query that names a parameter of the Parameter Set.
C8_Witness ==
  /\ pc = "processed"
  /\ NoSchemeIn(line)
  /\ HasSub(line, <<"H","T","T","P",":","/","/","e",".","c","o","?","k","=">> \o Secret)
  /\ redacted_line = line

InputFails  == input \in {"missing", "unreadable"}
OutputFails == output = "unwritable"

\* logging.critical of line 221 is among the records.
CriticalLogged == \E k \in 1..Len(error_log) : error_log[k].level = "CRITICAL"

\* C9, as stated: a run whose input cannot be opened ends with status 1 and
\* has not opened or written the output; a run whose output cannot be opened
\* ends with status 1; every other run ends with status 0.
C9_ExitStatusAsStated ==
  pc = "exited" =>
    /\ InputFails => (exit_status = 1 /\ ~output_opened /\ written = <<>>)
    /\ (~InputFails /\ OutputFails) => exit_status = 1
    /\ (~InputFails /\ ~OutputFails) => exit_status = 0

\* The command line is one the parser accepts.
ArgsAccepted == argv.options = "ok" /\ argv.log_level \in choices

\* The status a run ends with: e, and 120 when the interpreter could not
\* flush the standard streams at exit.
AtExit(e) == exit_status = (IF flush_failed THEN 120 ELSE e)

\* C9, amended: a run whose command line the parser does not accept ends
\* with status 0 (help) or 2 (usage error) and has opened, written and logged
\* nothing.  Of the other runs, one whose input cannot be opened ends with
\* status 1 and has not opened or written the output; one whose output
\* cannot be opened ends with status 1; one that opened both streams ends
\* with status 1 when an exception leaves the handling of the loop (closing
\* a file raises: a critical record is logged), and with status 0 otherwise,
\* an error logged for a URL or for a line included.  In each case the
\* status is 120 instead when the interpreter cannot flush standard output
\* or standard error at exit, which takes text written to one of them.
C9_ExitStatus ==
  pc = "exited" =>
    /\ ~ArgsAccepted =>
         /\ AtExit(IF argv.options = "help" THEN 0 ELSE 2)
         /\ ~output_opened /\ written = <<>> /\ error_log = <<>>
    /\ (ArgsAccepted /\ InputFails) =>
         (AtExit(1) /\ ~output_opened /\ written = <<>>)
    /\ (ArgsAccepted /\ ~InputFails /\ OutputFails) => AtExit(1)
    /\ (ArgsAccepted /\ ~InputFails /\ ~OutputFails) =>
         AtExit(IF CriticalLogged THEN 1 ELSE 0)
    /\ flush_failed => (StdoutText \/ StderrText)

\* A run that logged an error for a URL and one for a line and ended with
\* status 0.
C9_Witness ==
  /\ pc = "exited"
  /\ exit_status = 0
  /\ failed_at > 0
  /\ \E k \in 1..Len(error_log) : error_log[k].event = "data"
  /\ \E k \in 1..Len(error_log) :
       error_log[k] = RedactError(<<"h","t","t","p",":","/","/","[","a","b","c","]","?","k","=","S","3">>)

\* C10: when the loop raises on one line, every other line of the input,
\* the later ones included, is passed through process_line and written, in
\* the order of the input.
C10_LaterLinesWritten ==
  (pc = "exited" /\ failed_at > 0) =>
    LET others == SelectSeq([k \in 1..Len(input_lines) |-> k],
                            LAMBDA k : k # failed_at)
    IN written =
         [j \in 1..Len(others) |->
            process_line(input_lines[others[j]], params_to_redact,
                         redaction_string)]

====
